---- MODULE Spec2Model ----
(***************************************************************************)
(* A model of geocube's make_geocube pipeline: loading the vector data,    *)
(* resolving the grid (GeoBoxMaker.from_vector), the per-measurement and   *)
(* per-group rasterization loop of VectorToCube, the assembly of the       *)
(* output dataset, and the built-in rasterization strategies.              *)
(*                                                                         *)
(* Python's None is the empty tuple and a present value x is <<x>>, so     *)
(* that "x is None" is x = None.  Coordinates are integers.                *)
(***************************************************************************)
EXTENDS Integers, Sequences, FiniteSets, TLC

VARIABLES
    args,           \* the arguments of api.core.make_geocube, as passed
    caller,         \* the caller's own mutable objects: vector_data, measurements
    self,           \* the VectorToCube instance's attributes
    call,           \* the locals of VectorToCube.make_geocube and _get_dataset
    pc,             \* position of the call: new, constructed, loop, done, error
    data_vars,      \* _get_dataset's data_vars, in insertion order
    image_data,     \* _get_grouped_grid's image_data for the current measurement
    calls,          \* every invocation of the rasterization strategy, in order
    log,            \* the warnings logged so far
    error,          \* the exception that ended the call, or None
    out_xds,        \* the dataset returned, or None
    rin,            \* the arguments of a direct call of a function of the package
    rout,           \* its outcome, or None
    made,           \* the calls of make_geocube the instance has completed before
    _LOGGER         \* logging.getLogger("geocube"): its handlers and level

vars == <<args, caller, self, call, pc, data_vars, image_data, calls, log, error, out_xds, rin, rout, made, _LOGGER>>

callVars == <<args, caller, self, call, pc, data_vars, image_data, calls, log, error, out_xds>>

-----------------------------------------------------------------------------
(* Optional values and small helpers *)

None == <<>>

Some(x) == <<x>>

IsNone(o) == o = None

Val(o) == o[1]

Range(s) == {s[i] : i \in 1..Len(s)}

Abs(n) == IF n < 0 THEN -n ELSE n

\* the first index of s at which the element satisfies name = n, 0 if none
RECURSIVE IndexOf(_, _, _)
IndexOf(s, n, i) ==
    IF i > Len(s) THEN 0
    ELSE IF s[i] = n THEN i
    ELSE IndexOf(s, n, i + 1)

\* variant of Remove: nothing is dropped
Remove_nothing(s, n) == s

\* list.remove(x): drops the first occurrence
Remove(s, n) ==
    LET k == IndexOf(s, n, 1)
    IN  [i \in 1..(Len(s) - 1) |-> IF i < k THEN s[i] ELSE s[i + 1]]

-----------------------------------------------------------------------------
(* Exceptions: geocube/exceptions.py and the built-in hierarchy *)

\* variant of ExcBase: GeoCubeError derived from Exception directly
ExcBase_flat(e) ==
    CASE e = "VectorDataError" -> "GeoCubeError"
      [] e = "RuntimeError"    -> "Exception"
      [] e = "GeoCubeError"    -> "Exception"
      [] e = "AssertionError"  -> "Exception"
      [] OTHER                 -> "BaseException"

ExcBase(e) ==
    CASE e = "VectorDataError" -> "GeoCubeError"
      [] e = "GeoCubeError"    -> "RuntimeError"
      [] e = "RuntimeError"    -> "Exception"
      [] e = "AssertionError"  -> "Exception"
      [] e = "KeyError"        -> "Exception"
      [] e = "TypeError"       -> "Exception"
      [] e = "ValueError"      -> "Exception"
      [] OTHER                 -> "BaseException"

\* isinstance(e, cls) for an exception of class e
RECURSIVE IsInstance(_, _)
IsInstance(e, cls) ==
    IF e = cls THEN TRUE
    ELSE IF e = "BaseException" THEN FALSE
    ELSE IsInstance(ExcBase(e), cls)

\* outcome of a function: it returned value, or raised exc; warn is what it
\* logged, a sequence of records [msg, name]
Return(v, w) == [exc |-> None, value |-> v, warn |-> w]

Raise(e, site) == [exc |-> Some([type |-> e, site |-> site]), value |-> None, warn |-> <<>>]

-----------------------------------------------------------------------------
(* Coordinate reference systems.  Reprojection is the geodesy library's;   *)
(* it is modelled as a translation that differs per CRS, so that mixing up *)
(* two CRSs changes coordinates.                                           *)

CRSs == {"EPSG:4326", "EPSG:3857", "EPSG:32615"}

CrsOrigin(c) ==
    CASE c = "EPSG:4326"  -> 0
      [] c = "EPSG:3857"  -> 10
      [] c = "EPSG:32615" -> -7

\* bounds are <<minx, miny, maxx, maxy>>
ReprojectBounds(b, from, to) ==
    LET d == CrsOrigin(to) - CrsOrigin(from)
    IN  <<b[1] + d, b[2] + d, b[3] + d, b[4] + d>>

\* GeoDataFrame.to_crs: a new frame, the caller's is left alone
to_crs(frame, crs) ==
    [frame EXCEPT !.crs = Some(crs),
                  !.bounds = ReprojectBounds(frame.bounds, Val(frame.crs), crs)]

-----------------------------------------------------------------------------
(* load_vector_data (geo_utils/geobox.py) *)

\* geopandas.read_file(path) / geopandas.GeoDataFrame(data): the same features
\* as a GeoDataFrame
AsGeoDataFrame(vd) == [vd EXCEPT !.form = "GeoDataFrame"]

HasColumn(frame, n) == \E i \in 1..Len(frame.columns) : frame.columns[i].name = n

\* variant of load_vector_data: the emptiness test left out
load_vector_data_no_empty_test(vd) ==
    LET frame == AsGeoDataFrame(vd)
    IN  IF ~HasColumn(frame, "geometry")
        THEN Raise("VectorDataError", "geometry column missing.")
        ELSE IF IsNone(frame.crs) THEN Return([frame EXCEPT !.crs = Some("EPSG:4326")], <<>>)
        ELSE Return(frame, <<>>)

\* vd.form is the type of the argument: str, Path (an os.PathLike that is not a
\* str), GeoDataFrame or DataFrame. geopandas.GeoDataFrame(data) is the pandas
\* constructor, which takes a table and refuses a path object.
load_vector_data(vd) ==
    LET frame == IF vd.form = "str" THEN AsGeoDataFrame(vd)
                 ELSE IF vd.form # "GeoDataFrame" THEN AsGeoDataFrame(vd)
                 ELSE vd
    IN  IF vd.form = "Path"
        THEN Raise("ValueError", "DataFrame constructor not properly called!")
        ELSE IF frame.empty THEN Raise("VectorDataError", "Empty GeoDataFrame.")
        ELSE IF ~HasColumn(frame, "geometry")
             THEN Raise("VectorDataError", "geometry column missing.")
        ELSE IF IsNone(frame.crs)
             THEN Return([frame EXCEPT !.crs = Some("EPSG:4326")],
                         <<[msg |-> "Projection not defined in vector_data. Setting to geographic (EPSG:4326).",
                           name |-> "vector_data"]>>)
        ELSE Return(frame, <<>>)

\* what the caller's object looks like after load_vector_data(vd): a
\* GeoDataFrame is the very object that gets its crs assigned (line 85)
CallerAfterLoad(vd) ==
    IF vd.form = "GeoDataFrame" /\ IsNone(load_vector_data(vd).exc)
    THEN load_vector_data(vd).value
    ELSE vd

-----------------------------------------------------------------------------
(* Grids: geobox_from_rio, GeoBox.from_geopolygon, GeoBoxMaker.from_vector *)

\* A GeoBox is [width, height, affine, crs]; an affine transform without
\* rotation is [a, c, e, f]: x = c + a * col, y = f + e * row.

\* xds.rio.shape of the template: rasterio's order, (height, width)
rio_shape(xds) == <<xds.height, xds.width>>

\* xds.rio.transform()
rio_transform(xds) == xds.transform

\* the template's own geobox attribute (self.like.geobox), when it has one
like_geobox(xds) ==
    [width |-> xds.width, height |-> xds.height,
     affine |-> xds.transform, crs |-> Some(xds.crs)]

geobox_from_rio(xds) ==
    LET shape  == rio_shape(xds)
        width  == shape[1]
        height == shape[2]
    IN  [width |-> width, height |-> height,
         affine |-> rio_transform(xds), crs |-> Some(xds.crs)]

\* math.floor(n / d) and math.ceil(n / d) for d > 0
Floor(n, d) == n \div d

Ceil(n, d) == -((-n) \div d)

Max(a, b) == IF a >= b THEN a ELSE b

\* the grid library's _align_pix(left, right, res, off): [val, width].  The
\* width is ceil((extent - 0.1 * res) / res), at least 1: a tenth of a cell of
\* overhang is tolerated.
_align_pix(left, right, res, off) ==
    IF res < 0
    THEN LET r   == -res
             val == Ceil(right - off, r) * r + off
         IN  [val |-> val, width |-> Max(1, Ceil(10 * (val - left) - r, 10 * r))]
    ELSE LET val == Floor(left - off, res) * res + off
         IN  [val |-> val, width |-> Max(1, Ceil(10 * (right - val) - res, 10 * res))]

\* GeoBox.from_geopolygon(geopolygon, resolution, crs, align) of the grid
\* library; resolution and align are (row, col) = (y, x), and align lies in
\* [0, |resolution|]
from_geopolygon(geopoly, resolution, crs, align) ==
    LET al  == IF IsNone(align) THEN <<0, 0>> ELSE Val(align)
        b   == ReprojectBounds(geopoly.bounds, geopoly.crs, crs)
        px  == _align_pix(b[1], b[3], resolution[2], al[2])
        py  == _align_pix(b[2], b[4], resolution[1], al[1])
    IN  [width  |-> px.width,
         height |-> py.width,
         affine |-> [a |-> resolution[2], c |-> px.val,
                     e |-> resolution[1], f |-> py.val],
         crs    |-> Some(crs)]

\* Python truthiness of an optional string argument (if self.output_crs:)
Truthy(o) == ~IsNone(o) /\ Val(o) # ""

\* variant of BoundingPolygon: the payload's crs member is not looked at
BoundingPolygon_untagged(mk, frame, crs) ==
    IF IsNone(mk.geom)
    THEN [bounds |-> to_crs(frame, crs).bounds, crs |-> crs]
    ELSE [bounds |-> Val(mk.geom).bounds, crs |-> "EPSG:4326"]

\* the bounding polygon from_vector hands to from_geopolygon (lines 199-223)
BoundingPolygon(mk, frame, crs) ==
    IF IsNone(mk.geom) /\ Truthy(mk.output_crs)
    THEN [bounds |-> to_crs(frame, crs).bounds, crs |-> crs]
    ELSE IF IsNone(mk.geom)
    THEN [bounds |-> frame.bounds, crs |-> crs]
    ELSE [bounds |-> Val(mk.geom).bounds,
          crs |-> IF ~IsNone(Val(mk.geom).crs) THEN Val(Val(mk.geom).crs)
                  ELSE "EPSG:4326"]

\* variant of ResolvedCrs: output_crs is not looked at
ResolvedCrs_native(mk, frame) == Val(frame.crs)

\* the CRS of the grid when no template is given (lines 194-197)
ResolvedCrs(mk, frame) ==
    IF Truthy(mk.output_crs) THEN Val(mk.output_crs) ELSE Val(frame.crs)

\* variant of LikeAsserts: the assert on align left out
LikeAsserts_no_align(mk) ==
    IF ~IsNone(mk.output_crs) THEN Some("'like' and 'output_crs' are not supported together")
    ELSE IF ~IsNone(mk.resolution) THEN Some("'like' and 'resolution' are not supported together")
    ELSE None

\* the asserts of lines 178-184: the message of the first that fails, or None
LikeAsserts(mk) ==
    IF ~IsNone(mk.output_crs) THEN Some("'like' and 'output_crs' are not supported together")
    ELSE IF ~IsNone(mk.resolution) THEN Some("'like' and 'resolution' are not supported together")
    ELSE IF ~IsNone(mk.align) THEN Some("'like' and 'align' are not supported together")
    ELSE None

\* try: self.like.geobox, except AttributeError: geobox_from_rio(self.like)
LikeGeobox(xds) == IF xds.has_geobox THEN like_geobox(xds) ELSE geobox_from_rio(xds)

\* lines 194-227: the grid when no template is given
ResolveGrid(mk, frame) ==
    from_geopolygon(BoundingPolygon(mk, frame, ResolvedCrs(mk, frame)),
                    Val(mk.resolution), ResolvedCrs(mk, frame), mk.align)

\* variant of from_vector: a template is used whatever else is given
from_vector_unasserted(mk, vd) ==
    LET loaded == load_vector_data(vd)
    IN  IF ~IsNone(loaded.exc) THEN loaded
        ELSE IF ~IsNone(mk.like)
        THEN Return(LikeGeobox(Val(mk.like)), loaded.warn)
        ELSE IF IsNone(mk.resolution)
        THEN Raise("RuntimeError", "Must specify 'resolution' if 'like' not specified.")
        ELSE Return(ResolveGrid(mk, loaded.value), loaded.warn)

from_vector(mk, vd) ==
    LET loaded == load_vector_data(vd)
    IN  IF ~IsNone(loaded.exc) THEN loaded
        ELSE IF ~IsNone(mk.like)
        THEN IF ~IsNone(LikeAsserts(mk))
             THEN Raise("AssertionError", Val(LikeAsserts(mk)))
             ELSE Return(LikeGeobox(Val(mk.like)), loaded.warn)
        ELSE IF IsNone(mk.resolution)
        THEN Raise("RuntimeError", "Must specify 'resolution' if 'like' not specified.")
        ELSE Return(ResolveGrid(mk, loaded.value), loaded.warn)

\* variant of affine_to_coords: the two axes exchanged
affine_to_coords_transposed(affine, width, height) ==
    [x |-> [i \in 1..height |-> 2 * affine.c + affine.a * (2 * i - 1)],
     y |-> [j \in 1..width  |-> 2 * affine.f + affine.e * (2 * j - 1)]]

\* rioxarray's affine_to_coords(affine, width, height): the cell centres; each
\* coordinate is kept as twice its value, so that half cells stay integers
affine_to_coords(affine, width, height) ==
    [x |-> [i \in 1..width  |-> 2 * affine.c + affine.a * (2 * i - 1)],
     y |-> [j \in 1..height |-> 2 * affine.f + affine.e * (2 * j - 1)]]

-----------------------------------------------------------------------------
(* Fill values and numpy dtypes *)

\* a float: NaN, or the number v
NaN == [nan |-> TRUE, v |-> 0]

Num(n) == [nan |-> FALSE, v |-> n]

SignedInts == {"int8", "int16", "int32", "int64"}

UnsignedInts == {"uint8", "uint16", "uint32", "uint64"}

Floats == {"float16", "float32", "float64"}

Complexes == {"complex64", "complex128"}

\* the subclasses of numpy.integer, numpy.floating and numpy.number
IsInteger(dtype) == dtype \in SignedInts \cup UnsignedInts

IsFloating(dtype) == dtype \in Floats

IsNumber(dtype) == IsInteger(dtype) \/ IsFloating(dtype) \/ dtype \in Complexes

\* dtypes of value arrays that are not numbers
NonNumericDtypes == {"bool", "object", "str", "datetime64[ns]", "timedelta64[ns]"}

ArrayDtypes == SignedInts \cup UnsignedInts \cup Floats \cup Complexes \cup NonNumericDtypes

ItemSize(dtype) ==
    CASE dtype \in {"int8", "uint8", "bool"}                 -> 1
      [] dtype \in {"int16", "uint16", "float16"}            -> 2
      [] dtype \in {"int32", "uint32", "float32"}            -> 4
      [] dtype \in {"int64", "uint64", "float64", "complex64",
                    "datetime64[ns]", "timedelta64[ns]", "object"} -> 8
      [] OTHER                                               -> 16

-----------------------------------------------------------------------------
(* geocube/rasterize.py *)

\* A value array is [dtype, vals], vals the records [id, null]; a geometry
\* array is [crs, geoms].  A strategy's outcome is [exc, value, steps]: value
\* is None or <<image>>, steps the calls it made, in order.

\* variant of _is_numeric: booleans pass for numbers
_is_numeric_or_bool(data_values) == IsNumber(data_values.dtype) \/ data_values.dtype = "bool"

_is_numeric(data_values) == IsNumber(data_values.dtype)

\* s[keep]: boolean-mask indexing
RECURSIVE MaskFrom(_, _, _)
MaskFrom(s, keep, i) ==
    IF i > Len(s) THEN <<>>
    ELSE (IF keep[i] THEN <<s[i]>> ELSE <<>>) \o MaskFrom(s, keep, i + 1)

\* variant of _remove_missing_data: the geometries are left as they were
_remove_missing_data_values_only(data_values, geometry_array) ==
    LET not_missing_data == [i \in 1..Len(data_values.vals) |-> ~data_values.vals[i].null]
    IN  [geometry_array |-> geometry_array,
         data_values    |-> [data_values EXCEPT
                                !.vals = MaskFrom(data_values.vals, not_missing_data, 1)]]

_remove_missing_data(data_values, geometry_array) ==
    LET not_missing_data == [i \in 1..Len(data_values.vals) |-> ~data_values.vals[i].null]
    IN  [geometry_array |-> [geometry_array EXCEPT
                                !.geoms = MaskFrom(geometry_array.geoms, not_missing_data, 1)],
         data_values    |-> [data_values EXCEPT
                                !.vals = MaskFrom(data_values.vals, not_missing_data, 1)]]

_minimize_dtype(dtype, fill) ==
    IF IsInteger(dtype)
    THEN LET d1 == IF dtype = "int8" THEN "int16" ELSE dtype
             d2 == IF d1 = "int64" THEN "float64" ELSE d1
         IN  IF fill.nan
             THEN (IF ItemSize(d2) > 2 THEN "float64" ELSE "float32")
             ELSE d2
    ELSE IF ~IsFloating(dtype) THEN "float64"
    ELSE dtype

\* what a backend call produced: an array of the given shape
Image(by, shape, dtype, nodata, ga, dv) ==
    [by |-> by, shape |-> shape, dtype |-> dtype, nodata |-> nodata,
     crs |-> ga.crs, geoms |-> ga.geoms, vals |-> dv.vals]

rasterize_image(geometry_array, data_values, geobox, fill, filter_nan) ==
    IF ~_is_numeric(data_values)
    THEN [exc |-> None, value |-> None, steps |-> <<"_is_numeric">>]
    ELSE LET f  == IF filter_nan THEN _remove_missing_data(data_values, geometry_array)
                   ELSE [geometry_array |-> geometry_array, data_values |-> data_values]
         IN  [exc |-> None,
              value |-> Some(Image("rasterio.features.rasterize",
                                   <<geobox.height, geobox.width>>,
                                   _minimize_dtype(f.data_values.dtype, fill),
                                   Some(fill), f.geometry_array, f.data_values)),
              steps |-> <<"_is_numeric">>
                        \o (IF filter_nan THEN <<"_remove_missing_data">> ELSE <<>>)
                        \o <<"rasterio.features.rasterize">>]

rasterize_points_griddata(geometry_array, data_values, grid_coords, fill, filter_nan) ==
    IF ~_is_numeric(data_values)
    THEN [exc |-> None, value |-> None, steps |-> <<"_is_numeric">>]
    ELSE LET f  == IF filter_nan THEN _remove_missing_data(data_values, geometry_array)
                   ELSE [geometry_array |-> geometry_array, data_values |-> data_values]
         IN  [exc |-> None,
              value |-> Some(Image("scipy.interpolate.griddata",
                                   <<Len(grid_coords.y), Len(grid_coords.x)>>,
                                   "float64", Some(fill),
                                   f.geometry_array, f.data_values)),
              steps |-> <<"_is_numeric">>
                        \o (IF filter_nan THEN <<"_remove_missing_data">> ELSE <<>>)
                        \o <<"scipy.interpolate.griddata">>]

\* takes no fill: the radial basis function is defined on every cell
rasterize_points_radial(geometry_array, data_values, grid_coords, filter_nan) ==
    IF ~_is_numeric(data_values)
    THEN [exc |-> None, value |-> None, steps |-> <<"_is_numeric">>]
    ELSE LET f  == IF filter_nan THEN _remove_missing_data(data_values, geometry_array)
                   ELSE [geometry_array |-> geometry_array, data_values |-> data_values]
         IN  [exc |-> None,
              value |-> Some(Image("scipy.interpolate.Rbf",
                                   <<Len(grid_coords.y), Len(grid_coords.x)>>,
                                   "float64", None,
                                   f.geometry_array, f.data_values)),
              steps |-> <<"_is_numeric">>
                        \o (IF filter_nan THEN <<"_remove_missing_data">> ELSE <<>>)
                        \o <<"scipy.interpolate.Rbf">>]

BuiltIns == {"rasterize_image", "rasterize_points_griddata", "rasterize_points_radial"}

\* variant of CallStrategy: the caller's function returns None where it raises
CallStrategy_none_on_failure(fn, geometry_array, data_values, geobox, grid_coords, fill, measurement, group_index) ==
    CASE fn.name = "rasterize_image" ->
            rasterize_image(geometry_array, data_values, geobox, fill, fn.filter_nan)
      [] fn.name = "rasterize_points_griddata" ->
            rasterize_points_griddata(geometry_array, data_values, grid_coords, fill,
                                      fn.filter_nan)
      [] fn.name = "rasterize_points_radial" ->
            rasterize_points_radial(geometry_array, data_values, grid_coords,
                                    fn.filter_nan)
      [] OTHER ->
            IF measurement = fn.none_for /\ group_index \in {0, fn.at_group}
            THEN [exc |-> None, value |-> None, steps |-> <<"custom">>]
            ELSE [exc |-> None,
                  value |-> Some(Image("custom", <<geobox.height, geobox.width>>,
                                       "float64", Some(fill),
                                       geometry_array, data_values)),
                  steps |-> <<"custom">>]

\* A strategy is [name, filter_nan, none_for, at_group, fails]: a built-in (with
\* functools.partial's filter_nan), or a caller's function "custom" that for
\* measurement none_for (when grouped: at its at_group-th group) returns None,
\* or raises when fails is set, and returns an array otherwise.
CallStrategy(fn, geometry_array, data_values, geobox, grid_coords, fill, measurement, group_index) ==
    CASE fn.name = "rasterize_image" ->
            rasterize_image(geometry_array, data_values, geobox, fill, fn.filter_nan)
      [] fn.name = "rasterize_points_griddata" ->
            rasterize_points_griddata(geometry_array, data_values, grid_coords, fill,
                                      fn.filter_nan)
      [] fn.name = "rasterize_points_radial" ->
            rasterize_points_radial(geometry_array, data_values, grid_coords,
                                    fn.filter_nan)
      [] OTHER ->
            IF measurement = fn.none_for /\ group_index \in {0, fn.at_group}
            THEN IF fn.fails
                 THEN [exc |-> Some([type |-> "RuntimeError", site |-> "custom"]),
                       value |-> None, steps |-> <<"custom">>]
                 ELSE [exc |-> None, value |-> None, steps |-> <<"custom">>]
            ELSE [exc |-> None,
                  value |-> Some(Image("custom", <<geobox.height, geobox.width>>,
                                       "float64", Some(fill),
                                       geometry_array, data_values)),
                  steps |-> <<"custom">>]

-----------------------------------------------------------------------------
(* geocube/vector_to_cube.py: frames, columns, groups *)

\* A frame is [form, empty, columns, crs, bounds, grp]: columns are records
\* [name, dtype, cats, nulls, labels] in the order loaded (labels[i] the label
\* of feature i in a column of labels), bounds its total_bounds,
\* and grp[i] the value of column "grp" for feature i.

ColumnNames(frame) == [i \in 1..Len(frame.columns) |-> frame.columns[i].name]

ColumnOf(frame, n) == frame.columns[IndexOf(ColumnNames(frame), n, 1)]

Features(frame) == [i \in 1..Len(frame.grp) |-> i]

\* "datetime" in str(series.dtype)
IsDatetime(dtype) == dtype \in {"datetime64[ns]", "datetime64[ns, UTC]"}

\* the order of Python's sorted() on the labels used
LabelOrder == <<"clay", "frank", "nodata", "sand", "silt">>

Sorted(labels) == SelectSeq(LabelOrder, LAMBDA l : l \in labels)

\* the ascending sequence of the integers of S (pandas sorts the group keys)
RECURSIVE SortedInts(_)
SortedInts(S) ==
    IF S = {} THEN <<>>
    ELSE LET m == CHOOSE x \in S : \A y \in S : x <= y
         IN  <<m>> \o SortedInts(S \ {m})

\* vector_data.groupby(group_by).groups.keys()
GroupKeys(frame) == SortedInts(Range(frame.grp))

\* variant of GroupMembers: every feature, whatever its group
GroupMembers_whole_frame(frame, k) == Features(frame)

\* the features of the group with key k, in frame order
GroupMembers(frame, k) == SelectSeq(Features(frame), LAMBDA i : frame.grp[i] = k)

_format_series_data(col) ==
    IF IsDatetime(col.dtype)
    THEN [dtype |-> "float64",
          warn |-> <<[msg |-> "The series was converted from a date to a number to rasterize the data.",
                      name |-> col.name]>>]
    ELSE IF col.dtype = "category"
    THEN [dtype |-> "int8", warn |-> <<>>]
    ELSE [dtype |-> col.dtype, warn |-> <<>>]

\* the unit of datetime64[ns]
NanosPerSecond == 1000000000

\* pandas.to_numeric(data_series) on datetime64[ns]: the integer the timestamp
\* is held as, which counts nanoseconds from 1970-01-01T00:00:00
to_numeric(col) == [i \in 1..Len(col.times) |-> col.times[i] * NanosPerSecond]

\* variant of cat_codes: the codes count from one
cat_codes_from_one(col) ==
    [i \in 1..Len(col.labels) |->
        IF col.labels[i] \in Range(col.cats) THEN IndexOf(col.cats, col.labels[i], 1) ELSE -1]

\* data_series.cat.codes: the position of each label in the categories, from
\* zero, and -1 for a label that is not one of them (pandas holds it as NaN)
cat_codes(col) ==
    [i \in 1..Len(col.labels) |->
        IF col.labels[i] \in Range(col.cats) THEN IndexOf(col.cats, col.labels[i], 1) - 1 ELSE -1]

\* df[measurement].values of the features ids, after _format_series_data; v is
\* the category code of a categorical value and the number of a timestamp
SeriesValues(col, ids) ==
    [dtype |-> _format_series_data(col).dtype,
     vals  |-> [i \in 1..Len(ids) |->
                  [id |-> ids[i], null |-> ids[i] \in col.nulls,
                   v |-> IF col.dtype = "category" THEN cat_codes(col)[ids[i]]
                         ELSE IF IsDatetime(col.dtype) THEN to_numeric(col)[ids[i]]
                         ELSE 0]]]

\* variant of category_type: the labels as supplied, neither sorted nor de-duplicated
category_type_as_given(categories) == categories \o <<"nodata">>

\* CategoricalDtype(categories=sorted(set(categories)) + ["nodata"])
category_type(categories) == Sorted(Range(categories)) \o <<"nodata">>

\* self._vector_data[column_name] = self._vector_data[column_name].astype(category_type)
RECURSIVE ApplyEnums(_, _, _)
ApplyEnums(frame, enums, i) ==
    IF i > Len(enums) THEN Return(frame, <<>>)
    ELSE IF "nodata" \in Range(enums[i].categories)
    THEN Raise("ValueError", "Categorical categories must be unique")
    ELSE IF ~HasColumn(frame, enums[i].name)
    THEN Raise("KeyError", enums[i].name)
    ELSE LET k == IndexOf(ColumnNames(frame), enums[i].name, 1)
             cats == category_type(enums[i].categories)
         IN  ApplyEnums([frame EXCEPT !.columns[k].dtype = "category",
                                      !.columns[k].cats = cats],
                        enums, i + 1)

\* rasterize_image with its defaults
DefaultStrategy == [name |-> "rasterize_image", filter_nan |-> FALSE, none_for |-> "", at_group |-> 0, fails |-> FALSE]

NoSelf ==
    [_vector_data |-> None, _geobox |-> None, _grid_coords |-> None, _fill |-> NaN,
     _rasterize_function |-> DefaultStrategy, _datetime_measurements |-> {},
     _categorical_enums |-> <<>>]

\* GeoBoxMaker.__init__
GeoBoxMaker(output_crs, resolution, align, geom, like) ==
    [output_crs |-> output_crs, resolution |-> resolution, align |-> align,
     geom |-> geom, like |-> like]

\* VectorToCube.__init__: [exc, self, vector_data, warn], vector_data being the
\* caller's object afterwards
VectorToCubeInit(vd, geobox_maker, fill, categorical_enums) ==
    LET loaded == load_vector_data(vd)
        gb     == from_vector(geobox_maker, loaded.value)
        enums  == IF IsNone(categorical_enums) THEN <<>> ELSE Val(categorical_enums)
        typed  == ApplyEnums(loaded.value, enums, 1)
        shared == vd.form = "GeoDataFrame"
    IN  IF ~IsNone(loaded.exc)
        THEN [exc |-> loaded.exc, self |-> NoSelf, vector_data |-> vd, warn |-> <<>>]
        ELSE IF ~IsNone(gb.exc)
        THEN [exc |-> gb.exc, self |-> [NoSelf EXCEPT !._vector_data = Some(loaded.value)],
              vector_data |-> CallerAfterLoad(vd), warn |-> loaded.warn]
        ELSE IF ~IsNone(typed.exc)
        \* the grid, its coordinates and the fill are set before the enumerations
        THEN [exc |-> typed.exc,
              self |-> [NoSelf EXCEPT
                          !._vector_data = Some(loaded.value),
                          !._geobox = Some(gb.value),
                          !._grid_coords =
                              Some([x |-> affine_to_coords(gb.value.affine, gb.value.width, gb.value.height).x,
                                    y |-> affine_to_coords(gb.value.affine, gb.value.width, gb.value.height).y,
                                    group |-> None]),
                          !._fill = IF ~IsNone(fill) THEN Val(fill) ELSE NaN],
              vector_data |-> CallerAfterLoad(vd), warn |-> loaded.warn \o gb.warn]
        ELSE [exc |-> None,
              self |-> [_vector_data |-> Some(typed.value),
                        _geobox |-> Some(gb.value),
                        _grid_coords |-> Some([x |-> affine_to_coords(gb.value.affine, gb.value.width, gb.value.height).x,
                                               y |-> affine_to_coords(gb.value.affine, gb.value.width, gb.value.height).y,
                                               group |-> None]),
                        _fill |-> IF ~IsNone(fill) THEN Val(fill) ELSE NaN,
                        _rasterize_function |-> DefaultStrategy,
                        _datetime_measurements |-> {},
                        _categorical_enums |-> <<>>],
              vector_data |-> IF shared THEN typed.value ELSE vd,
              warn |-> loaded.warn \o gb.warn]

-----------------------------------------------------------------------------
(* VectorToCube.make_geocube, lines 137-175: everything up to _get_dataset *)

NoCall ==
    [measurements |-> <<>>, group_by |-> None, vector_data |-> None,
     groups |-> <<>>, mi |-> 0, gi |-> 0, fill_value |-> NaN]

\* pandas.to_datetime(series).dt.tz_convert("UTC").dt.tz_localize(None)
\*     .astype("datetime64[ns]"): tz_convert refuses tz-naive timestamps
RECURSIVE ConvertDatetimes(_, _)
ConvertDatetimes(frame, names) ==
    IF names = {} THEN Return(frame, <<>>)
    ELSE LET n == CHOOSE x \in names : TRUE
             k == IndexOf(ColumnNames(frame), n, 1)
         IN  IF frame.columns[k].dtype # "datetime64[ns, UTC]"
             THEN Raise("TypeError", "Cannot convert tz-naive timestamps, use tz_localize to localize")
             ELSE ConvertDatetimes([frame EXCEPT !.columns[k].dtype = "datetime64[ns]"],
                                   names \ {n})

\* vector_data.select_dtypes(["category"]).columns with their categories
CategoricalEnums(frame) ==
    LET cols == SelectSeq(frame.columns, LAMBDA c : c.dtype = "category")
    IN  [i \in 1..Len(cols) |-> [name |-> cols[i].name, categories |-> cols[i].cats]]

\* [exc, self, call, measurements]: measurements is the caller's list afterwards
MakeGeocubePrepare(me, measurements, datetime_measurements, group_by, rasterize_function) ==
    LET fn   == IF IsNone(rasterize_function) THEN DefaultStrategy ELSE Val(rasterize_function)
        m0   == IF IsNone(measurements)
                THEN Remove(ColumnNames(Val(me._vector_data)), "geometry")
                ELSE Val(measurements)
        dts  == IF IsNone(datetime_measurements) THEN {}
                ELSE Range(Val(datetime_measurements)) \cap Range(m0)
        vd0  == to_crs(Val(me._vector_data), Val(Val(me._geobox).crs))
        conv == ConvertDatetimes(vd0, dts)
        enums == CategoricalEnums(conv.value)
        grouped == Truthy(group_by)
        m1   == IF grouped /\ Val(group_by) \in Range(m0) THEN Remove(m0, Val(group_by)) ELSE m0
        me1  == [me EXCEPT !._rasterize_function = fn, !._datetime_measurements = dts]
    IN  IF IsNone(Val(me._geobox).crs)
        THEN [exc |-> Raise("UnboundLocalError", "vector_data").exc, self |-> me1,
              call |-> NoCall, measurements |-> measurements]
        ELSE IF ~IsNone(conv.exc)
        THEN [exc |-> conv.exc, self |-> me1, call |-> NoCall, measurements |-> measurements]
        ELSE IF grouped /\ ~HasColumn(conv.value, Val(group_by))
        THEN [exc |-> Raise("KeyError", Val(group_by)).exc,
              self |-> [me1 EXCEPT !._categorical_enums = enums],
              call |-> NoCall, measurements |-> measurements]
        ELSE [exc |-> None,
              self |-> [me1 EXCEPT !._categorical_enums = enums],
              call |-> [measurements |-> m1, group_by |-> group_by,
                        vector_data |-> Some(conv.value),
                        groups |-> IF grouped THEN GroupKeys(conv.value) ELSE <<>>,
                        mi |-> 1, gi |-> 1, fill_value |-> me._fill],
              \* measurements.remove(group_by) acts on the caller's own list
              measurements |-> IF IsNone(measurements) THEN measurements ELSE Some(m1)]

-----------------------------------------------------------------------------
(* _get_grid, _get_grouped_grid, _get_dataset *)

_get_attrs(measurement_name, fill_value) ==
    [name |-> measurement_name, long_name |-> measurement_name,
     _FillValue |-> fill_value, units |-> None, categorical_mapping |-> None]

\* image_data[image_data == self._fill] = 0.0 on one layer; NaN equals nothing
ZeroFill(image, fill) ==
    IF ~IsNone(image.nodata) /\ ~fill.nan /\ Val(image.nodata) = fill
    THEN [image EXCEPT !.nodata = Some(Num(0))]
    ELSE image

\* _update_time_attrs: [attrs, image_data]
_update_time_attrs(me, attrs, layers) ==
    [attrs |-> [attrs EXCEPT !.units = Some("seconds from 1970-01-01T00:00:00"),
                             !._FillValue = Num(0)],
     image_data |-> [i \in 1..Len(layers) |-> ZeroFill(layers[i], me._fill)]]

\* the fill handed to the strategy for a column
FillFor(me, col) == IF col.dtype # "category" THEN me._fill ELSE Num(-1)

\* self._rasterize_function(geometry_array=..., data_values=..., geobox=...,
\*                          grid_coords=..., fill=...) on the features ids
Rasterize(me, frame, measurement, ids, group_index) ==
    CallStrategy(me._rasterize_function,
                 [crs |-> Val(frame.crs), geoms |-> ids],
                 SeriesValues(ColumnOf(frame, measurement), ids),
                 Val(me._geobox), Val(me._grid_coords),
                 FillFor(me, ColumnOf(frame, measurement)), measurement, group_index)

\* the record kept of one invocation of the strategy
CallRecord(me, frame, measurement, ids, group_index, res) ==
    [measurement |-> measurement, group |-> group_index, geoms |-> ids,
     crs |-> Val(frame.crs), fill |-> FillFor(me, ColumnOf(frame, measurement)),
     dtype |-> SeriesValues(ColumnOf(frame, measurement), ids).dtype,
     geobox |-> Val(me._geobox),
     returned_none |-> IsNone(res.exc) /\ IsNone(res.value)]

Skipping(measurement) ==
    [msg |-> "Skipping attribute due to missing data...", name |-> measurement]

\* the data variable _get_grid / _get_grouped_grid return for the layers
DataVar(me, col, dims, layers) ==
    LET attrs == _get_attrs(col.name, FillFor(me, col))
        timed == _update_time_attrs(me, attrs, layers)
    IN  IF IsDatetime(col.dtype)
        THEN [name |-> col.name, dims |-> dims, data |-> timed.image_data, attrs |-> timed.attrs]
        ELSE [name |-> col.name, dims |-> dims, data |-> layers, attrs |-> attrs]

\* names that out_xds[name] finds: data variables and coordinates
DatasetNames(vars_, coords) ==
    {vars_[i].name : i \in 1..Len(vars_)} \cup {"x", "y"}
        \cup (IF IsNone(coords.group) THEN {} ELSE {Val(coords.group).name})

\* lines 265-283 of _get_dataset: [exc, out_xds, coords]
AssembleDataset(me, vars_, group_by, groups, interpolate_na_method) ==
    LET coords == IF Truthy(group_by)
                  THEN [Val(me._grid_coords) EXCEPT
                            !.group = Some([name |-> Val(group_by), keys |-> groups])]
                  ELSE Val(me._grid_coords)
        enums   == me._categorical_enums
        missing == SelectSeq(enums, LAMBDA e : e.name \notin DatasetNames(vars_, coords))
        mapped  == {enums[i].name : i \in 1..Len(enums)}
    IN  IF missing # <<>>
        THEN [exc |-> Raise("KeyError", missing[1].name).exc, out_xds |-> None,
              coords |-> coords]
        ELSE [exc |-> None,
              out_xds |-> Some(
                  [data_vars |-> [i \in 1..Len(vars_) |->
                        IF vars_[i].name \in mapped
                        THEN [vars_[i] EXCEPT !.attrs.categorical_mapping =
                                  Some([of |-> vars_[i].name, suffix |-> "_categories"])]
                        ELSE vars_[i]],
                   categories |-> [i \in 1..Len(enums) |->
                        [of |-> enums[i].name, suffix |-> "_categories",
                         values |-> enums[i].categories]],
                   coords |-> coords,
                   transform |-> Val(me._geobox).affine,
                   crs |-> Val(me._geobox).crs,
                   interpolated |-> interpolate_na_method]),
              coords |-> coords]

-----------------------------------------------------------------------------
(* The inputs of the model *)

(* logger.py *)

\* isinstance(handle, handler_type) for the classes of the logging module
IsHandler(cls, handler_type) ==
    \/ cls = handler_type
    \/ cls = "FileHandler" /\ handler_type = "StreamHandler"

\* _LOGGER = logging.getLogger("geocube"); _LOGGER.addHandler(logging.NullHandler())
ModuleLogger == [handlers |-> <<[cls |-> "NullHandler", id |-> 0]>>, level |-> "NOTSET"]

\* set_log_level(level)
set_log_level(logger, level) ==
    IF ~IsNone(level) THEN [logger EXCEPT !.level = Val(level)]
    ELSE [logger EXCEPT !.level = "WARNING"]

\* a handler object that is none of those attached
NewHandler(logger, cls) ==
    [cls |-> cls,
     id  |-> CHOOSE n \in 1..(Len(logger.handlers) + 1) :
                /\ \A i \in 1..Len(logger.handlers) : logger.handlers[i].id # n
                /\ \A m \in 1..(n - 1) : \E i \in 1..Len(logger.handlers) : logger.handlers[i].id = m]

\* for handle in _LOGGER.handlers: the loop reads position i of the list as it
\* is at that moment, and removeHandler takes the handler out of that same list
RECURSIVE RemoveLoop(_, _, _)
RemoveLoop(handlers, handler_type, i) ==
    IF i > Len(handlers) THEN handlers
    ELSE IF IsHandler(handlers[i].cls, handler_type)
    THEN RemoveLoop(SelectSeq(handlers, LAMBDA h : h # handlers[i]), handler_type, i + 1)
    ELSE RemoveLoop(handlers, handler_type, i + 1)

_remove_log_handler(logger, handler_type) ==
    [logger EXCEPT !.handlers = RemoveLoop(logger.handlers, handler_type, 1)]

log_to_console(logger, status, level) ==
    LET l == set_log_level(logger, level)
    IN  IF status
        THEN [l EXCEPT !.handlers = Append(@, NewHandler(l, "StreamHandler"))]
        ELSE _remove_log_handler(l, "StreamHandler")

log_to_file(logger, status, level) ==
    LET l == set_log_level(logger, level)
    IN  IF status
        THEN [l EXCEPT !.handlers = Append(@, NewHandler(l, "FileHandler"))]
        ELSE _remove_log_handler(l, "FileHandler")

-----------------------------------------------------------------------------
\* the most groups a frame of the model has
MaxGroups == 3

Column(n, dtype) == [name |-> n, dtype |-> dtype, cats |-> <<>>, nulls |-> {}, labels |-> <<>>, times |-> <<>>]

\* the labels of the features of a column of labels: sand, frank, clay, silt, ...
LabelCycle == <<"sand", "frank", "clay", "silt">>

FeatureLabels == [i \in 1..MaxGroups |-> LabelCycle[((i - 1) % Len(LabelCycle)) + 1]]

\* a column of strings
LabelColumn(n) == [Column(n, "object") EXCEPT !.labels = FeatureLabels]

\* a column the caller has given a categorical dtype with the categories cats
CatColumn(n, cats) ==
    [name |-> n, dtype |-> "category", cats |-> cats, nulls |-> {}, labels |-> FeatureLabels,
     times |-> <<>>]

\* the instants of the features of a column of timestamps, in whole seconds
\* after 1970-01-01T00:00:00 UTC: 0, 1, 2, 0, ...
FeatureTimes == [i \in 1..MaxGroups |-> (i - 1) % 3]

\* a column of timestamps: dtype datetime64[ns, UTC] (timezone-aware) or
\* datetime64[ns] (timezone-naive)
TimeColumn(n, dtype) == [Column(n, dtype) EXCEPT !.times = FeatureTimes]

\* a frame of n features, feature i in group n + 1 - i, with columns a, b, grp
Frame(form, crs, bounds, b, n) ==
    [form |-> form, empty |-> FALSE,
     columns |-> <<Column("a", "int64"), b, Column("grp", "int64"),
                   Column("geometry", "geometry")>>,
     crs |-> crs, bounds |-> bounds, grp |-> [i \in 1..n |-> n + 1 - i]]

Forms == {"str", "GeoDataFrame", "DataFrame"}

BaseFrame == Frame("GeoDataFrame", Some("EPSG:4326"), <<-3, -2, 4, 5>>, Column("b", "float64"), 2)

\* frames load_vector_data refuses: no rows, or no geometry column
InvalidFrames ==
    {[BaseFrame EXCEPT !.form = f, !.empty = TRUE, !.grp = <<>>] : f \in Forms}
    \cup {[BaseFrame EXCEPT !.form = f, !.empty = TRUE, !.grp = <<>>, !.columns = <<>>] : f \in Forms}
    \cup {[BaseFrame EXCEPT !.form = f, !.columns = <<Column("a", "int64"), Column("grp", "int64")>>] : f \in Forms}

GridFrames ==
    {Frame(f, c, b, Column("b", "float64"), 2) :
        f \in Forms, c \in {None, Some("EPSG:4326"), Some("EPSG:3857")},
        b \in {<<-3, -2, 4, 5>>, <<0, 0, 4, 4>>, <<0, 0, 11, 21>>}}

BColumns ==
    {Column("b", "float64"), Column("b", "object"), TimeColumn("b", "datetime64[ns]"),
     CatColumn("b", <<"clay", "sand", "silt", "nodata">>),
     CatColumn("b", <<"clay", "sand", "silt">>)}

CubeFrames ==
    {Frame("GeoDataFrame", Some("EPSG:4326"), <<-3, -2, 4, 5>>, b, n) :
        b \in BColumns, n \in 2..MaxGroups}

Template(has_geobox, width, height) ==
    [has_geobox |-> has_geobox, width |-> width, height |-> height,
     transform |-> [a |-> 1, c |-> 0, e |-> -1, f |-> 2], crs |-> "EPSG:3857"]

Likes == {None} \cup {Some(Template(g, w, 2)) : g \in BOOLEAN, w \in {1, 2}}

OutputCrss == {None, Some("EPSG:3857"), Some("EPSG:32615")}

Resolutions == {None, Some(<<-1, 1>>), Some(<<-2, 3>>), Some(<<2, 2>>), Some(<<-10, 10>>)}

Aligns == {None, Some(<<0, 0>>), Some(<<1, 1>>)}

\* a GeoJSON bounding polygon: its bounds, and its "crs" member if it has one
Geoms ==
    {None, Some([bounds |-> <<-5, -4, 6, 7>>, crs |-> None]),
     Some([bounds |-> <<-5, -4, 6, 7>>, crs |-> Some("EPSG:3857")])}

GroupBys == {None, Some("grp")}

Custom(m, g) == [name |-> "custom", filter_nan |-> FALSE, none_for |-> m, at_group |-> g, fails |-> FALSE]

\* a caller's function that raises RuntimeError where Custom(m, g) returns None
Failing(m, g) == [Custom(m, g) EXCEPT !.fails = TRUE]

Strategies ==
    {None}
    \cup {Some([DefaultStrategy EXCEPT !.name = n]) : n \in BuiltIns \ {"rasterize_image"}}
    \cup {Some(Custom("", 0))}
    \cup {Some(Custom(m, g)) : m \in {"a", "b"}, g \in 1..MaxGroups}

BaseArgs ==
    [vector_data |-> BaseFrame, measurements |-> None, datetime_measurements |-> None,
     output_crs |-> None, resolution |-> Some(<<-1, 1>>), align |-> None, geom |-> None,
     like |-> None, fill |-> Some(Num(-9999)), group_by |-> None,
     interpolate_na_method |-> None, categorical_enums |-> None,
     rasterize_function |-> None]

\* every grid configuration, on frames that differ in form, CRS, bounds, validity
GridInputs ==
    {[BaseArgs EXCEPT !.vector_data = v, !.output_crs = c, !.resolution = r,
                      !.align = a, !.geom = g, !.like = l, !.group_by = gb] :
        v \in GridFrames \cup InvalidFrames, c \in OutputCrss, r \in Resolutions,
        a \in Aligns, g \in Geoms, l \in Likes, gb \in GroupBys}

\* the measurements argument: absent, or a list without repetitions
MeasurementLists == {None, Some(<<"b", "a">>), Some(<<"a", "grp", "b">>), Some(<<"a">>)}

\* every strategy and measurement kind, on two valid grid configurations
CubeInputs ==
    {[BaseArgs EXCEPT !.vector_data = v, !.measurements = m, !.group_by = gb,
                      !.rasterize_function = f, !.fill = fl,
                      !.resolution = IF IsNone(l) THEN Some(<<-1, 1>>) ELSE None,
                      !.like = l] :
        v \in CubeFrames, m \in MeasurementLists, gb \in GroupBys,
        f \in Strategies, fl \in {None, Some(Num(-9999))},
        l \in {None, Some(Template(TRUE, 2, 2))}}

\* an integer column of every width, with NaN and zero fills (fill=None is NaN)
DtypeInputs ==
    {[BaseArgs EXCEPT !.vector_data = [BaseFrame EXCEPT !.columns[1].dtype = d],
                      !.measurements = Some(<<"a">>), !.fill = fl, !.group_by = gb] :
        d \in SignedInts \cup UnsignedInts, fl \in {None, Some(NaN), Some(Num(0))},
        gb \in GroupBys}

\* the categorical_enums argument for the column of labels b: labels in and out
\* of order, repeated, holding "nodata" itself, or naming a column that is not there
EnumArgs ==
    {Some(<<[name |-> "b", categories |-> <<"sand", "silt", "clay">>]>>),
     Some(<<[name |-> "b", categories |-> <<"silt", "clay", "silt", "sand">>]>>),
     Some(<<[name |-> "b", categories |-> <<"sand", "nodata">>]>>),
     Some(<<[name |-> "soil", categories |-> <<"sand", "silt", "clay">>]>>)}

EnumInputs ==
    {[BaseArgs EXCEPT !.vector_data = Frame("GeoDataFrame", Some("EPSG:4326"), <<-3, -2, 4, 5>>,
                                            LabelColumn("b"), n),
                      !.categorical_enums = e, !.measurements = m, !.group_by = gb,
                      !.rasterize_function = f, !.fill = fl] :
        n \in 2..MaxGroups, e \in EnumArgs, m \in MeasurementLists, gb \in GroupBys,
        f \in {None, Some(Custom("", 0))}, fl \in {None, Some(Num(-9999))}}

\* the datetime_measurements argument
DatetimeLists == {None, Some(<<"b">>), Some(<<"b", "when">>)}

\* the fill argument of a call with timestamps (fill=None is NaN)
TimeFills == {None, Some(NaN), Some(Num(-9999)), Some(Num(0))}

\* a column of timezone-aware or timezone-naive timestamps, listed or not in
\* datetime_measurements
TimeInputs ==
    {[BaseArgs EXCEPT !.vector_data = Frame("GeoDataFrame", Some("EPSG:4326"), <<-3, -2, 4, 5>>,
                                            TimeColumn("b", d), n),
                      !.datetime_measurements = dm, !.measurements = m, !.group_by = gb,
                      !.rasterize_function = f, !.fill = fl] :
        n \in 2..MaxGroups, d \in {"datetime64[ns, UTC]", "datetime64[ns]"},
        dm \in DatetimeLists, m \in MeasurementLists, gb \in GroupBys,
        f \in {None, Some(Custom("", 0))}, fl \in TimeFills}

\* the built-in strategies on grids that are wider than high, or higher than
\* wide (the template's)
ShapeInputs ==
    {[BaseArgs EXCEPT !.vector_data = Frame("GeoDataFrame", Some("EPSG:4326"), <<0, 0, 4, 2>>,
                                            Column("b", "float64"), n),
                      !.group_by = gb, !.rasterize_function = f,
                      !.resolution = IF IsNone(l) THEN Some(<<-1, 1>>) ELSE None,
                      !.like = l] :
        n \in 2..MaxGroups, gb \in GroupBys,
        f \in {None} \cup {Some([DefaultStrategy EXCEPT !.name = b]) : b \in BuiltIns},
        l \in {None, Some(Template(TRUE, 1, 2))}}

\* a strategy that raises at the first or a later measurement or group
FailInputs ==
    {[BaseArgs EXCEPT !.vector_data = Frame("GeoDataFrame", Some("EPSG:4326"), <<-3, -2, 4, 5>>,
                                            Column("b", "float64"), n),
                      !.measurements = m, !.group_by = gb,
                      !.rasterize_function = Some(Failing(x, g))] :
        n \in 2..MaxGroups, m \in MeasurementLists, gb \in GroupBys,
        x \in {"a", "b"}, g \in 1..MaxGroups}

\* the values of the group column: keys that repeat, out of order, with gaps
GroupValues == {1, 2, 5}

\* features that share groups, with and without a strategy that skips
GroupInputs ==
    {[BaseArgs EXCEPT !.vector_data = [Frame("GeoDataFrame", Some("EPSG:4326"), <<-3, -2, 4, 5>>,
                                              Column("b", "float64"), MaxGroups)
                                          EXCEPT !.grp = g],
                      !.measurements = m, !.group_by = Some("grp"),
                      !.rasterize_function = f] :
        g \in [1..MaxGroups -> GroupValues], m \in {None, Some(<<"b", "a">>)},
        f \in {None, Some(Custom("a", 2))}}

Inputs ==
    GridInputs \cup CubeInputs \cup DtypeInputs \cup EnumInputs \cup TimeInputs \cup ShapeInputs
        \cup FailInputs \cup GroupInputs

-----------------------------------------------------------------------------
(* One call of api.core.make_geocube with the arguments args, step by step *)

Init ==
    /\ args \in Inputs
    /\ caller = [vector_data |-> args.vector_data, measurements |-> args.measurements]
    /\ self = NoSelf
    /\ call = NoCall
    /\ pc = "new"
    /\ data_vars = <<>>
    /\ image_data = <<>>
    /\ calls = <<>>
    /\ log = <<>>
    /\ error = None
    /\ out_xds = None
    /\ rin = None
    /\ rout = None
    /\ made = 0
    /\ _LOGGER = ModuleLogger

\* geobox_maker = GeoBoxMaker(...); VectorToCube(vector_data, geobox_maker, fill,
\* categorical_enums)
Construct ==
    /\ pc = "new"
    /\ LET r == VectorToCubeInit(caller.vector_data,
                                 GeoBoxMaker(args.output_crs, args.resolution, args.align,
                                             args.geom, args.like),
                                 args.fill, args.categorical_enums)
       IN  /\ pc' = IF IsNone(r.exc) THEN "constructed" ELSE "error"
           /\ error' = r.exc
           /\ self' = r.self
           /\ caller' = [caller EXCEPT !.vector_data = r.vector_data]
           /\ log' = log \o r.warn
    /\ UNCHANGED <<args, call, data_vars, image_data, calls, out_xds, rin, rout, made, _LOGGER>>

\* .make_geocube(measurements, datetime_measurements, group_by, ...) up to the
\* call of _get_dataset, and data_vars = {}
Prepare ==
    /\ pc = "constructed"
    /\ LET r == MakeGeocubePrepare(self, caller.measurements, args.datetime_measurements,
                                   args.group_by, args.rasterize_function)
       IN  /\ pc' = IF IsNone(r.exc) THEN "loop" ELSE "error"
           /\ error' = r.exc
           /\ self' = r.self
           /\ call' = r.call
           /\ caller' = [caller EXCEPT !.measurements = r.measurements]
    /\ data_vars' = <<>>
    /\ image_data' = <<>>
    /\ UNCHANGED <<args, calls, log, out_xds, rin, rout, made, _LOGGER>>

\* one iteration of _get_dataset's loop without group_by: _get_grid
GetGrid ==
    /\ pc = "loop"
    /\ ~Truthy(call.group_by)
    /\ call.mi <= Len(call.measurements)
    /\ LET m     == call.measurements[call.mi]
           frame == Val(call.vector_data)
           col   == ColumnOf(frame, m)
           res   == Rasterize(self, frame, m, Features(frame), 0)
       IN  /\ calls' = Append(calls, CallRecord(self, frame, m, Features(frame), 0, res))
           /\ log' = log \o _format_series_data(col).warn
                         \o (IF IsNone(res.exc) /\ IsNone(res.value) THEN <<Skipping(m)>> ELSE <<>>)
           /\ error' = res.exc
           /\ pc' = IF IsNone(res.exc) THEN "loop" ELSE "error"
           /\ data_vars' = IF IsNone(res.exc) /\ ~IsNone(res.value)
                           THEN Append(data_vars, DataVar(self, col, <<"y", "x">>, <<Val(res.value)>>))
                           ELSE data_vars
           /\ call' = [call EXCEPT !.mi = @ + 1]
    /\ UNCHANGED <<args, caller, self, image_data, out_xds, rin, rout, made, _LOGGER>>

\* one iteration of _get_grouped_grid's loop over the groups
GetGroupedGridStep ==
    /\ pc = "loop"
    /\ Truthy(call.group_by)
    /\ call.mi <= Len(call.measurements)
    /\ call.gi <= Len(call.groups)
    /\ LET m     == call.measurements[call.mi]
           frame == Val(call.vector_data)
           col   == ColumnOf(frame, m)
           ids   == GroupMembers(frame, call.groups[call.gi])
           res   == Rasterize(self, frame, m, ids, call.gi)
           none  == IsNone(res.exc) /\ IsNone(res.value)
       IN  /\ calls' = Append(calls, CallRecord(self, frame, m, ids, call.gi, res))
           /\ log' = log \o _format_series_data(col).warn
                         \o (IF none THEN <<Skipping(m)>> ELSE <<>>)
           /\ error' = res.exc
           /\ pc' = IF IsNone(res.exc) THEN "loop" ELSE "error"
           \* return None leaves the loop and drops the list
           /\ image_data' = IF IsNone(res.exc) /\ ~none
                            THEN Append(image_data, Val(res.value))
                            ELSE <<>>
           /\ call' = IF none THEN [call EXCEPT !.mi = @ + 1, !.gi = 1]
                      ELSE [call EXCEPT !.gi = @ + 1, !.fill_value = FillFor(self, col)]
    /\ UNCHANGED <<args, caller, self, data_vars, out_xds, rin, rout, made, _LOGGER>>

\* the end of _get_grouped_grid (lines 337-348) and data_vars[measurement] = ...
GetGroupedGridFinish ==
    /\ pc = "loop"
    /\ Truthy(call.group_by)
    /\ call.mi <= Len(call.measurements)
    /\ call.gi > Len(call.groups)
    /\ LET m   == call.measurements[call.mi]
           col == ColumnOf(Val(call.vector_data), m)
       IN  data_vars' = Append(data_vars,
                               DataVar(self, col, <<Val(call.group_by), "y", "x">>, image_data))
    /\ image_data' = <<>>
    /\ call' = [call EXCEPT !.mi = @ + 1, !.gi = 1]
    /\ UNCHANGED <<args, caller, self, pc, calls, log, error, out_xds, rin, rout, made, _LOGGER>>

\* the rest of _get_dataset (lines 265-283), and the return
Assemble ==
    /\ pc = "loop"
    /\ call.mi > Len(call.measurements)
    /\ LET r == AssembleDataset(self, data_vars, call.group_by, call.groups,
                                args.interpolate_na_method)
       IN  /\ pc' = IF IsNone(r.exc) THEN "done" ELSE "error"
           /\ error' = r.exc
           /\ out_xds' = r.out_xds
           /\ self' = [self EXCEPT !._grid_coords = Some(r.coords)]
    /\ UNCHANGED <<args, caller, call, data_vars, image_data, calls, log, rin, rout, made, _LOGGER>>

Next ==
    \/ Construct
    \/ Prepare
    \/ GetGrid
    \/ GetGroupedGridStep
    \/ GetGroupedGridFinish
    \/ Assemble

Spec == Init /\ [][Next]_vars

-----------------------------------------------------------------------------
(* A built-in strategy called directly on a value array *)

\* the records of a value array
MaxRecords == 2

RasterGeobox == like_geobox(Template(TRUE, 2, 2))

\* fills: NaN, zero, and numbers below and above the range of the small dtypes
RasterFills == {NaN, Num(0), Num(-1), Num(-9999), Num(70000)}

RasterInputs ==
    [fn : {[DefaultStrategy EXCEPT !.name = n, !.filter_nan = f] : n \in BuiltIns, f \in BOOLEAN},
     geometry_array : {[crs |-> "EPSG:3857", geoms |-> [i \in 1..MaxRecords |-> i]]},
     data_values : {[dtype |-> d,
                     vals |-> [i \in 1..MaxRecords |-> [id |-> i, null |-> i \in nulls, v |-> i]]] :
                        d \in ArrayDtypes, nulls \in SUBSET (1..MaxRecords)},
     geobox : {RasterGeobox},
     grid_coords : {affine_to_coords(RasterGeobox.affine, RasterGeobox.width, RasterGeobox.height)},
     fill : RasterFills]

InitRasterize ==
    /\ args = BaseArgs
    /\ caller = [vector_data |-> args.vector_data, measurements |-> args.measurements]
    /\ self = NoSelf
    /\ call = NoCall
    /\ pc = "direct"
    /\ data_vars = <<>>
    /\ image_data = <<>>
    /\ calls = <<>>
    /\ log = <<>>
    /\ error = None
    /\ out_xds = None
    /\ rin \in {Some(i) : i \in RasterInputs}
    /\ rout = None
    /\ made = 0
    /\ _LOGGER = ModuleLogger

\* rasterize_image(...), rasterize_points_griddata(...), rasterize_points_radial(...)
CallBuiltIn ==
    /\ pc = "direct"
    /\ IsNone(rout)
    /\ rout' = Some(CallStrategy(Val(rin).fn, Val(rin).geometry_array, Val(rin).data_values,
                                 Val(rin).geobox, Val(rin).grid_coords, Val(rin).fill, "", 0))
    /\ UNCHANGED <<callVars, rin, made, _LOGGER>>

NextRasterize == CallBuiltIn

SpecRasterize == InitRasterize /\ [][NextRasterize]_vars

-----------------------------------------------------------------------------
(* Several calls of VectorToCube.make_geocube on one instance *)

\* the most calls made on one instance
MaxCalls == 2

\* the arguments of one call of the method
CallArgs ==
    [measurements : {None, Some(<<"a">>)}, group_by : GroupBys,
     rasterize_function : {None, Some(Custom("", 0))}]

InstanceInputs ==
    {[BaseArgs EXCEPT !.measurements = c.measurements, !.group_by = c.group_by,
                      !.rasterize_function = c.rasterize_function] : c \in CallArgs}

InitInstance ==
    /\ args \in InstanceInputs
    /\ caller = [vector_data |-> args.vector_data, measurements |-> args.measurements]
    /\ self = NoSelf
    /\ call = NoCall
    /\ pc = "new"
    /\ data_vars = <<>>
    /\ image_data = <<>>
    /\ calls = <<>>
    /\ log = <<>>
    /\ error = None
    /\ out_xds = None
    /\ rin = None
    /\ rout = None
    /\ made = 0
    /\ _LOGGER = ModuleLogger

\* the caller, holding the dataset of one call, calls .make_geocube(...) of the
\* same instance again, with arguments of its choice
Again ==
    /\ pc = "done"
    /\ made + 1 < MaxCalls
    /\ \E c \in CallArgs :
          /\ args' = [args EXCEPT !.measurements = c.measurements, !.group_by = c.group_by,
                                  !.rasterize_function = c.rasterize_function]
          /\ caller' = [caller EXCEPT !.measurements = c.measurements]
    /\ pc' = "constructed"
    /\ call' = NoCall
    /\ data_vars' = <<>>
    /\ image_data' = <<>>
    /\ calls' = <<>>
    /\ out_xds' = None
    /\ made' = made + 1
    /\ UNCHANGED <<self, log, error, rin, rout, _LOGGER>>

NextInstance == Next \/ Again

SpecInstance == InitInstance /\ [][NextInstance]_vars

-----------------------------------------------------------------------------
(* The functions of logger.py, called in any order *)

\* the most handlers the logger of the model holds
MaxHandlers == 5

Levels == {None, Some("INFO")}

InitLogger ==
    /\ args = BaseArgs
    /\ caller = [vector_data |-> args.vector_data, measurements |-> args.measurements]
    /\ self = NoSelf
    /\ call = NoCall
    /\ pc = "logger"
    /\ data_vars = <<>>
    /\ image_data = <<>>
    /\ calls = <<>>
    /\ log = <<>>
    /\ error = None
    /\ out_xds = None
    /\ rin = None
    /\ rout = None
    /\ made = 0
    /\ _LOGGER = ModuleLogger

\* log_to_console(True, level)
ConsoleOn ==
    /\ pc = "logger"
    /\ Len(_LOGGER.handlers) < MaxHandlers
    /\ \E level \in Levels : _LOGGER' = log_to_console(_LOGGER, TRUE, level)
    /\ UNCHANGED <<callVars, rin, rout, made>>

\* log_to_console(False, level)
ConsoleOff ==
    /\ pc = "logger"
    /\ \E level \in Levels : _LOGGER' = log_to_console(_LOGGER, FALSE, level)
    /\ UNCHANGED <<callVars, rin, rout, made>>

\* log_to_file(True, level=level)
FileOn ==
    /\ pc = "logger"
    /\ Len(_LOGGER.handlers) < MaxHandlers
    /\ \E level \in Levels : _LOGGER' = log_to_file(_LOGGER, TRUE, level)
    /\ UNCHANGED <<callVars, rin, rout, made>>

\* log_to_file(False, level=level)
FileOff ==
    /\ pc = "logger"
    /\ \E level \in Levels : _LOGGER' = log_to_file(_LOGGER, FALSE, level)
    /\ UNCHANGED <<callVars, rin, rout, made>>

NextLogger == ConsoleOn \/ ConsoleOff \/ FileOn \/ FileOff

SpecLogger == InitLogger /\ [][NextLogger]_vars

-----------------------------------------------------------------------------
(* A direct call of geo_utils.geobox.load_vector_data *)

\* the types vector_data is documented to have
LoadForms == Forms \cup {"Path"}

\* the same features handed over in every form
LoadFrames ==
    {[v EXCEPT !.form = f] : v \in GridFrames \cup InvalidFrames \cup CubeFrames, f \in LoadForms}

InitLoad ==
    /\ args = BaseArgs
    /\ caller = [vector_data |-> args.vector_data, measurements |-> args.measurements]
    /\ self = NoSelf
    /\ call = NoCall
    /\ pc = "load"
    /\ data_vars = <<>>
    /\ image_data = <<>>
    /\ calls = <<>>
    /\ log = <<>>
    /\ error = None
    /\ out_xds = None
    /\ rin \in {Some([vector_data |-> v]) : v \in LoadFrames}
    /\ rout = None
    /\ made = 0
    /\ _LOGGER = ModuleLogger

\* load_vector_data(vector_data)
CallLoad ==
    /\ pc = "load"
    /\ IsNone(rout)
    /\ rout' = Some(load_vector_data(Val(rin).vector_data))
    /\ UNCHANGED <<callVars, rin, made, _LOGGER>>

NextLoad == CallLoad

SpecLoad == InitLoad /\ [][NextLoad]_vars

-----------------------------------------------------------------------------
(* Properties of the grid resolution, checked under Spec *)

\* the call has left the constructor, one way or the other
Constructed == pc # "new"

ErrorType == IF IsNone(error) THEN "" ELSE Val(error).type

\* the feature collection is one load_vector_data accepts
ValidData == ~args.vector_data.empty /\ HasColumn(args.vector_data, "geometry")

\* a template together with at least one of output_crs, resolution, align
LikeConflict ==
    /\ ~IsNone(args.like)
    /\ ~IsNone(args.output_crs) \/ ~IsNone(args.resolution) \/ ~IsNone(args.align)

NothingProduced == IsNone(self._geobox) /\ IsNone(out_xds) /\ calls = <<>>

\* C1 as stated: a template combined with any of output_crs, resolution, align
\* always fails with an AssertionError, and no grid or dataset is produced.
C1_AsStated ==
    (LikeConflict /\ Constructed) =>
        (pc = "error" /\ ErrorType = "AssertionError" /\ NothingProduced)

\* C1: a template combined with any non-empty subset of output_crs, resolution,
\* align always fails and produces no grid and no dataset, with or without
\* group_by; the error is an AssertionError when the feature collection is
\* non-empty and has a geometry column, and the VectorDataError of the loading
\* step otherwise.
C1_LikeConflictFails ==
    (LikeConflict /\ Constructed) =>
        /\ pc = "error"
        /\ NothingProduced
        /\ ErrorType = IF ValidData THEN "AssertionError" ELSE "VectorDataError"

\* a grouped call with a template and align only has failed on the assert
C1_Witness ==
    /\ LikeConflict /\ pc = "error" /\ ErrorType = "AssertionError"
    /\ IsNone(args.output_crs) /\ IsNone(args.resolution) /\ ~IsNone(args.align)
    /\ Truthy(args.group_by)

\* C2: without a template and without a resolution the call always fails with
\* a RuntimeError (the loading step's VectorDataError is one), whatever
\* output_crs, align and geom are; on loadable data it is the RuntimeError of
\* the missing resolution.
C2_NoResolutionFails ==
    (IsNone(args.like) /\ IsNone(args.resolution) /\ Constructed) =>
        /\ pc = "error"
        /\ IsInstance(ErrorType, "RuntimeError")
        /\ NothingProduced
        /\ ValidData => ErrorType = "RuntimeError"

\* no template, no resolution, but output_crs, align and geom all given
C2_Witness ==
    /\ IsNone(args.like) /\ IsNone(args.resolution)
    /\ ~IsNone(args.output_crs) /\ ~IsNone(args.align) /\ ~IsNone(args.geom)
    /\ pc = "error" /\ ErrorType = "RuntimeError"

\* C3: a feature collection that is empty or has no geometry column always
\* fails with a VectorDataError, for every grid configuration, those invalid in
\* themselves included: the data are validated first.
C3_InvalidDataFails ==
    (~ValidData /\ Constructed) =>
        (pc = "error" /\ ErrorType = "VectorDataError" /\ NothingProduced)

\* invalid data with a grid configuration that is itself invalid
C3_Witness ==
    /\ ~ValidData /\ pc = "error" /\ ErrorType = "VectorDataError"
    /\ LikeConflict \/ (IsNone(args.like) /\ IsNone(args.resolution))

\* the grid has been resolved
GridResolved == ~IsNone(self._geobox)

\* a template and none of output_crs, resolution, align, on loadable data
TemplateOnly == ~IsNone(args.like) /\ ~LikeConflict /\ ValidData

\* C4 as stated: with a template alone the resolved grid is the template's
\* grid, its transform, pixel shape (height, width) and CRS, whatever the
\* features and geom are, and the output's transform is the template's.
C4_TemplateGridReused ==
    (TemplateOnly /\ Constructed) =>
        /\ GridResolved
        /\ Val(self._geobox).affine = Val(args.like).transform
        /\ Val(self._geobox).height = Val(args.like).height
        /\ Val(self._geobox).width = Val(args.like).width
        /\ Val(self._geobox).crs = Some(Val(args.like).crs)
        /\ pc = "done" => Val(out_xds).transform = Val(args.like).transform

\* a valid configuration without a template, on loadable data
NoTemplate == IsNone(args.like) /\ ~IsNone(args.resolution) /\ ValidData

\* the CRS the features are in once loaded
NativeCrs == IF IsNone(args.vector_data.crs) THEN "EPSG:4326" ELSE Val(args.vector_data.crs)

\* the CRS the grid is to have: output_crs over the native one
TargetCrs == IF ~IsNone(args.output_crs) THEN Val(args.output_crs) ELSE NativeCrs

\* the bounding extent, in the target CRS
BoundingExtent ==
    IF ~IsNone(args.geom)
    THEN ReprojectBounds(Val(args.geom).bounds,
                         IF ~IsNone(Val(args.geom).crs) THEN Val(Val(args.geom).crs)
                         ELSE "EPSG:4326",
                         TargetCrs)
    ELSE ReprojectBounds(args.vector_data.bounds, NativeCrs, TargetCrs)

\* the largest v' <= v, and the smallest v' >= v, with v' - off a multiple of res
SnapDown(v, res, off) == ((v - off) \div res) * res + off

SnapUp(v, res, off) == off - (((off - v) \div res) * res)

AlignOffset == IF IsNone(args.align) THEN <<0, 0>> ELSE Val(args.align)

\* the edges of a grid
GridLeft(g) == IF g.affine.a > 0 THEN g.affine.c ELSE g.affine.c + g.affine.a * g.width

GridRight(g) == IF g.affine.a > 0 THEN g.affine.c + g.affine.a * g.width ELSE g.affine.c

GridBottom(g) == IF g.affine.e > 0 THEN g.affine.f ELSE g.affine.f + g.affine.e * g.height

GridTop(g) == IF g.affine.e > 0 THEN g.affine.f + g.affine.e * g.height ELSE g.affine.f

\* C5 as stated: without a template the grid's extent is the bounding extent
\* snapped outward to multiples of |resolution| offset by align, its width and
\* height are that snapped extent divided by |resolution| (so the grid covers
\* the bounding extent), and the transform keeps the sign of each resolution.
C5_SnappedOutward ==
    (NoTemplate /\ Constructed) =>
        LET g    == Val(self._geobox)
            resy == Abs(Val(args.resolution)[1])
            resx == Abs(Val(args.resolution)[2])
            b    == BoundingExtent
        IN  /\ GridResolved
            /\ GridLeft(g) = SnapDown(b[1], resx, AlignOffset[2])
            /\ GridRight(g) = SnapUp(b[3], resx, AlignOffset[2])
            /\ GridBottom(g) = SnapDown(b[2], resy, AlignOffset[1])
            /\ GridTop(g) = SnapUp(b[4], resy, AlignOffset[1])
            /\ g.width * resx = SnapUp(b[3], resx, AlignOffset[2]) - SnapDown(b[1], resx, AlignOffset[2])
            /\ g.height * resy = SnapUp(b[4], resy, AlignOffset[1]) - SnapDown(b[2], resy, AlignOffset[1])
            /\ GridLeft(g) <= b[1] /\ b[3] <= GridRight(g)
            /\ GridBottom(g) <= b[2] /\ b[4] <= GridTop(g)
            /\ g.affine.a = Val(args.resolution)[2]
            /\ g.affine.e = Val(args.resolution)[1]

\* C6: without a template the grid's CRS is output_crs when one is given and
\* the features' native CRS otherwise, and every measurement is rasterized
\* from features reprojected into that CRS.
C6_CrsPrecedence ==
    (NoTemplate /\ Constructed) =>
        /\ GridResolved
        /\ Val(self._geobox).crs = Some(TargetCrs)
        /\ pc \in {"loop", "done"} =>
              /\ Val(call.vector_data).crs = Some(TargetCrs)
              /\ Val(call.vector_data).bounds =
                    ReprojectBounds(args.vector_data.bounds, NativeCrs, TargetCrs)
        /\ \A i \in 1..Len(calls) : calls[i].crs = TargetCrs

\* a measurement has been rasterized in an output_crs that differs from the
\* features' CRS
C6_Witness ==
    /\ NoTemplate /\ ~IsNone(args.output_crs) /\ NativeCrs # TargetCrs
    /\ calls # <<>> /\ calls[1].crs = Val(args.output_crs)

-----------------------------------------------------------------------------
(* Properties of the strategies and of skipped measurements *)

\* a built-in strategy has returned from a value array that holds no numbers
NonNumericCall == ~IsNone(rout) /\ Val(rin).data_values.dtype \in NonNumericDtypes

NoneFor == {calls[i].measurement : i \in {j \in 1..Len(calls) : calls[j].returned_none}}

\* the names of the data variables collected so far, and of those returned
NamesOf(vars_) == [i \in 1..Len(vars_) |-> vars_[i].name]

Survivors == SelectSeq(call.measurements, LAMBDA m : m \notin NoneFor)

\* C9 as stated: without group_by, for any strategy and measurement kind, a
\* None result removes exactly that measurement and logs a warning; the other
\* measurements are present with their layer and the call returns normally.
C9_UngroupedNoneSkips ==
    (~Truthy(args.group_by) /\ NoneFor # {}) =>
        /\ pc # "error"
        /\ \A m \in NoneFor : Skipping(m) \in Range(log) /\ m \notin Range(NamesOf(data_vars))
        /\ pc = "done" =>
              /\ NamesOf(Val(out_xds).data_vars) = Survivors
              /\ \A i \in 1..Len(Val(out_xds).data_vars) :
                    Len(Val(out_xds).data_vars[i].data) = 1

\* C10 as stated: with group_by, a None for any one group of a measurement
\* leaves that measurement out for all groups, with no partial stack, and the
\* other measurements are unaffected: each is present with one layer per group.
C10_GroupedNoneDropsAll ==
    (Truthy(args.group_by) /\ NoneFor # {}) =>
        /\ pc # "error"
        /\ \A m \in NoneFor : m \notin Range(NamesOf(data_vars))
        /\ \A i \in 1..Len(data_vars) : Len(data_vars[i].data) = Len(call.groups)
        /\ pc = "done" =>
              /\ NamesOf(Val(out_xds).data_vars) = Survivors
              /\ \A i \in 1..Len(Val(out_xds).data_vars) :
                    Len(Val(out_xds).data_vars[i].data) = Len(call.groups)

-----------------------------------------------------------------------------
(* Properties of the output's variables *)

\* the working measurement list as the arguments determine it: the list asked
\* for, or every column but the geometry, less the group column when grouping
RequestedList ==
    LET cols == SelectSeq(ColumnNames(args.vector_data), LAMBDA n : n # "geometry")
        base == IF IsNone(args.measurements) THEN cols ELSE Val(args.measurements)
    IN  IF Truthy(args.group_by)
        THEN SelectSeq(base, LAMBDA n : n # Val(args.group_by))
        ELSE base

\* C11: the data variables of the output are in the order of the working
\* measurement list (the list asked for, or else the non-geometry columns as
\* loaded, without the group column when grouping), the group column is never
\* a data variable, and skipped measurements leave the order of the others as
\* it was.
C11_OutputOrder ==
    pc = "done" =>
        /\ NamesOf(Val(out_xds).data_vars) = SelectSeq(RequestedList, LAMBDA m : m \notin NoneFor)
        /\ Truthy(args.group_by) => Val(args.group_by) \notin Range(NamesOf(Val(out_xds).data_vars))

\* an output with a skipped measurement between two that are present
C11_Witness ==
    /\ pc = "done" /\ NoneFor # {}
    /\ Len(Val(out_xds).data_vars) >= 2
    /\ NamesOf(Val(out_xds).data_vars) # RequestedList

\* a grouped output from a list that named the group column
C11_WitnessGrouped ==
    /\ pc = "done" /\ Truthy(args.group_by) /\ ~IsNone(args.measurements)
    /\ Val(args.group_by) \in Range(Val(args.measurements))

-----------------------------------------------------------------------------
(* Properties of the dtype of a burned layer, checked under SpecRasterize *)

\* rasterize_image has returned an array from an integer or floating source
Burned ==
    /\ ~IsNone(rout)
    /\ Val(rin).fn.name = "rasterize_image"
    /\ ~IsNone(Val(rout).value)

SourceDtype == Val(rin).data_values.dtype

BurnedDtype == Val(Val(rout).value).dtype

\* the width in bits of an integer dtype
BitWidth(dtype) ==
    CASE dtype \in {"int8", "uint8"}   -> 8
      [] dtype \in {"int16", "uint16"} -> 16
      [] dtype \in {"int32", "uint32"} -> 32
      [] dtype \in {"int64", "uint64"} -> 64

\* C12 as stated: for every source dtype and fill, an integer source with NaN
\* fill gives float32 when at most 16 bits wide and float64 otherwise; int8
\* is widened to int16; a 64-bit integer source gives float64 for every fill;
\* an integer source of at most 32 bits with a fill that is not NaN keeps an
\* integer dtype; a floating source is unchanged.
C12_DtypeSelection ==
    Burned =>
        /\ (IsInteger(SourceDtype) /\ Val(rin).fill.nan) =>
              BurnedDtype = IF BitWidth(SourceDtype) <= 16 THEN "float32" ELSE "float64"
        /\ (SourceDtype = "int8" /\ ~Val(rin).fill.nan) => BurnedDtype = "int16"
        /\ (IsInteger(SourceDtype) /\ BitWidth(SourceDtype) = 64) => BurnedDtype = "float64"
        /\ (IsInteger(SourceDtype) /\ BitWidth(SourceDtype) <= 32 /\ ~Val(rin).fill.nan) =>
              IsInteger(BurnedDtype)
        /\ IsFloating(SourceDtype) => BurnedDtype = SourceDtype

\* a number v is a value of dtype; the numbers of the model lie well inside
\* 32 bits, and float16 ends at 65504
Represents(dtype, v) ==
    CASE dtype = "int8"    -> -128 <= v /\ v <= 127
      [] dtype = "uint8"   -> 0 <= v /\ v <= 255
      [] dtype = "int16"   -> -32768 <= v /\ v <= 32767
      [] dtype = "uint16"  -> 0 <= v /\ v <= 65535
      [] dtype \in {"uint32", "uint64"} -> 0 <= v
      [] dtype = "float16" -> -65504 <= v /\ v <= 65504
      [] OTHER -> TRUE

\* a fill is a value of dtype: NaN only of a floating dtype
RepresentsFill(dtype, fill) ==
    IF fill.nan THEN IsFloating(dtype) ELSE Represents(dtype, fill.v)

\* C14 as stated: for every source dtype and fill the dtype of the burned
\* layer can hold the fill: a fill outside the source integer dtype's range
\* never leaves the layer in a dtype in which it wraps or truncates.
C14_FillRepresentable ==
    Burned => RepresentsFill(BurnedDtype, Val(rin).fill)

-----------------------------------------------------------------------------
(* Properties of the layers of the output, checked under Spec *)

\* the default strategy is in use
DefaultBurn == IsNone(args.rasterize_function)

\* the dtype the column has in the caller's feature collection
ColumnDtype(n) == ColumnOf(args.vector_data, n).dtype

\* the fill asked for: NaN when none is given
CallerFill == IF IsNone(args.fill) THEN NaN ELSE Val(args.fill)

\* the data variables of the output, none when there is no output
OutputVars == IF IsNone(out_xds) THEN <<>> ELSE Val(out_xds).data_vars

\* C13 as stated: with the default strategy on an integer column, fill 0 gives
\* a layer of the source dtype for uint16, int32 and int64, and NaN fill gives
\* float32 for uint16 and float64 for int32 and int64.
C13_LayerDtype ==
    (pc = "done" /\ DefaultBurn) =>
        \A i \in 1..Len(OutputVars) :
            LET d == ColumnDtype(OutputVars[i].name)
            IN  (d \in {"uint16", "int32", "int64"}) =>
                    \A k \in 1..Len(OutputVars[i].data) :
                        /\ CallerFill = Num(0) => OutputVars[i].data[k].dtype = d
                        /\ CallerFill.nan =>
                              OutputVars[i].data[k].dtype =
                                  IF d = "uint16" THEN "float32" ELSE "float64"

-----------------------------------------------------------------------------
(* Properties of categorical measurements, checked under Spec *)

EnumArg == IF IsNone(args.categorical_enums) THEN <<>> ELSE Val(args.categorical_enums)

\* the column is categorical: typed so by the caller, or named in categorical_enums
IsCategorical(n) ==
    \/ ColumnDtype(n) = "category"
    \/ \E i \in 1..Len(EnumArg) : EnumArg[i].name = n

\* the label feature id has in column n of the caller's feature collection
OriginalLabel(n, id) == ColumnOf(args.vector_data, n).labels[id]

\* the enumerations stored in the output for column n
StoredEnums(n) ==
    {Val(out_xds).categories[i].values :
        i \in {j \in 1..Len(Val(out_xds).categories) : Val(out_xds).categories[j].of = n}}

\* the burned categorical variables of the output
BurnedCategorical ==
    {i \in 1..Len(OutputVars) : DefaultBurn /\ IsCategorical(OutputVars[i].name)}

\* C15: for every label of a measurement's enumeration, the code burned into
\* the grid is the label's index, from zero, in the enumeration stored in the
\* output, so the stored enumeration indexed by the code is the label.
C15_CodesRoundTrip ==
    pc = "done" =>
        \A i \in BurnedCategorical :
            /\ Cardinality(StoredEnums(OutputVars[i].name)) = 1
            /\ \A enum \in StoredEnums(OutputVars[i].name) :
               \A k \in 1..Len(OutputVars[i].data) :
               \A r \in 1..Len(OutputVars[i].data[k].vals) :
                  LET val   == OutputVars[i].data[k].vals[r]
                      label == OriginalLabel(OutputVars[i].name, val.id)
                  IN  label \in Range(enum) =>
                          /\ 0 <= val.v /\ val.v < Len(enum)
                          /\ enum[val.v + 1] = label

\* an output with an explicit enumeration in which "sand" has a code other than 0
C15_Witness ==
    /\ pc = "done" /\ BurnedCategorical # {} /\ ~IsNone(args.categorical_enums)
    /\ \E i \in BurnedCategorical :
          \E r \in 1..Len(OutputVars[i].data[1].vals) :
              /\ OriginalLabel(OutputVars[i].name, OutputVars[i].data[1].vals[r].id) = "sand"
              /\ OutputVars[i].data[1].vals[r].v = 1

\* enumeration[code] as Python and numpy index: a negative code counts from the end
Decode(enum, code) ==
    IF 0 <= code /\ code < Len(enum) THEN enum[code + 1]
    ELSE IF -Len(enum) <= code /\ code < 0 THEN enum[Len(enum) + code + 1]
    ELSE "IndexError"

\* C16 as stated: a value that is not in the explicit or observed enumeration
\* is encoded, without raising, to the code that decodes to "nodata" through
\* the stored enumeration, and cells no feature covers carry that same code.
C16_OutsideIsNodata ==
    pc = "done" =>
        \A i \in BurnedCategorical :
        \A enum \in StoredEnums(OutputVars[i].name) :
        \A k \in 1..Len(OutputVars[i].data) :
            LET layer == OutputVars[i].data[k]
            IN  /\ ~IsNone(layer.nodata) /\ ~Val(layer.nodata).nan
                /\ Decode(enum, Val(layer.nodata).v) = "nodata"
                /\ \A r \in 1..Len(layer.vals) :
                      OriginalLabel(OutputVars[i].name, layer.vals[r].id) \notin Range(enum) =>
                          /\ layer.vals[r].v = Val(layer.nodata).v
                          /\ Decode(enum, layer.vals[r].v) = "nodata"

\* label a sorts before label b
LabelBefore(a, b) == IndexOf(LabelOrder, a, 1) < IndexOf(LabelOrder, b, 1)

\* enum is the labels supplied, each once, in sorted order, and then "nodata"
SortedThenNodata(enum, supplied) ==
    /\ Len(enum) = Cardinality(Range(supplied)) + 1
    /\ enum[Len(enum)] = "nodata"
    /\ {enum[i] : i \in 1..(Len(enum) - 1)} = Range(supplied)
    /\ \A i, j \in 1..(Len(enum) - 1) : i < j => LabelBefore(enum[i], enum[j])

IgnoredCategorical ==
    {n \in Range(ColumnNames(args.vector_data)) : IsCategorical(n) /\ n \notin Range(RequestedList)}

\* the loop over the measurements has run to its end and the call has ended
LoopDone == call.mi >= 1 /\ pc \in {"done", "error"}

\* C18 as stated: a categorical column that is not in the working measurement
\* list is ignored: the call succeeds, the data variables are exactly the
\* measurements asked for, and no <column>_categories variable is attached
\* for the ignored column.
C18_IgnoredCategorical ==
    (IgnoredCategorical # {} /\ LoopDone) =>
        /\ pc = "done"
        /\ NamesOf(OutputVars) = SelectSeq(RequestedList, LAMBDA m : m \notin NoneFor)
        /\ \A n \in IgnoredCategorical : StoredEnums(n) = {}

-----------------------------------------------------------------------------
(* Timestamps *)

\* the measurements the call converts to timestamps: those listed in
\* datetime_measurements that are in the working measurement list
ListedTimes ==
    IF IsNone(args.datetime_measurements) THEN {}
    ELSE Range(Val(args.datetime_measurements)) \cap Range(RequestedList)

\* the seconds between 1970-01-01T00:00:00 UTC and the timestamp of feature id
SecondsOf(n, id) == ColumnOf(args.vector_data, n).times[id]

\* every value of every layer of the data variable is the seconds of its feature
HoldsSeconds(var) ==
    \A l \in 1..Len(var.data) :
        \A j \in 1..Len(var.data[l].vals) :
            var.data[l].vals[j].v = SecondsOf(var.name, var.data[l].vals[j].id)

\* C19 as stated: for a measurement listed in datetime_measurements and in the
\* working measurement list, with timezone-aware and timezone-naive timestamps
\* alike, the conversion succeeds and the value rasterized for a timestamp is
\* the number of seconds between 1970-01-01T00:00:00 UTC and it, as the units
\* attribute of the layer says.
C19_EpochSeconds ==
    (ListedTimes # {} /\ pc \in {"loop", "done", "error"}) =>
        /\ ErrorType # "TypeError"
        /\ \A i \in 1..Len(OutputVars) :
              OutputVars[i].name \in ListedTimes =>
                  /\ OutputVars[i].attrs.units = Some("seconds from 1970-01-01T00:00:00")
                  /\ HoldsSeconds(OutputVars[i])

\* the data variables made from a column of timestamps
Temporal(var) == IsDatetime(ColumnDtype(var.name))

\* C20 as stated: every temporal data variable of the output, grouped or not
\* and whatever the caller's fill (NaN included), has _FillValue 0 and the
\* seconds units, and no layer of it still holds the caller's fill: the cells
\* that held it hold 0.
C20_TimeFillZeroed ==
    pc = "done" =>
        \A i \in 1..Len(OutputVars) :
            Temporal(OutputVars[i]) =>
                /\ OutputVars[i].attrs._FillValue = Num(0)
                /\ OutputVars[i].attrs.units = Some("seconds from 1970-01-01T00:00:00")
                /\ \A l \in 1..Len(OutputVars[i].data) :
                      OutputVars[i].data[l].nodata \in {None, Some(Num(0))}

-----------------------------------------------------------------------------
(* The forms of vector_data *)

\* the features of the argument as a GeoDataFrame
SameFeatures(vd) == [vd EXCEPT !.form = "GeoDataFrame"]

Loadable(vd) == ~vd.empty /\ HasColumn(vd, "geometry")

\* C21 as stated: vector_data is accepted as a string path, a path-like
\* object, a GeoDataFrame or a DataFrame with a geometry column: no form is
\* rejected, and every form of the same features loads as the same feature
\* collection.
C21_EveryFormLoads ==
    (pc = "load" /\ ~IsNone(rout) /\ Loadable(Val(rin).vector_data)) =>
        /\ IsNone(Val(rout).exc)
        /\ Val(rout).value = load_vector_data(SameFeatures(Val(rin).vector_data)).value

-----------------------------------------------------------------------------
(* One grid per output *)

BuiltInStrategy == self._rasterize_function.name \in BuiltIns

\* the layer has the shape of the grid: (height, width)
OnGrid(image) == image.shape = <<Val(self._geobox).height, Val(self._geobox).width>>

\* every layer of the data variable is on the grid, one layer per group
VarOnGrid(var) ==
    /\ \A l \in 1..Len(var.data) : OnGrid(var.data[l])
    /\ Len(var.dims) = 3 => Len(var.data) = Len(call.groups)
    /\ Len(var.dims) = 2 => Len(var.data) = 1

LayersOnGrid ==
    BuiltInStrategy =>
        /\ \A i \in 1..Len(image_data) : OnGrid(image_data[i])
        /\ \A i \in 1..Len(data_vars) : VarOnGrid(data_vars[i])
        /\ \A i \in 1..Len(OutputVars) : VarOnGrid(OutputVars[i])
        /\ pc = "done" =>
              /\ Len(Val(out_xds).coords.y) = Val(self._geobox).height
              /\ Len(Val(out_xds).coords.x) = Val(self._geobox).width
              /\ Len(OutputVars) > 0 =>
                    (Len(OutputVars[1].dims) = 3 <=> Truthy(args.group_by))

\* C22: the grid, once resolved, never changes, and every layer a built-in
\* strategy produces has the shape (grid height, grid width), with one layer
\* per group when grouped; the y and x axes of the output have the lengths
\* height and width.
C22_OneGrid ==
    [][(GridResolved => self'._geobox = self._geobox) /\ LayersOnGrid']_vars

\* a grouped output of scipy's griddata on a grid that is not square
C22_Witness ==
    /\ pc = "done" /\ Truthy(args.group_by)
    /\ self._rasterize_function.name = "rasterize_points_griddata"
    /\ Val(self._geobox).height # Val(self._geobox).width
    /\ Len(OutputVars) > 0 /\ Len(OutputVars[1].data) = MaxGroups

-----------------------------------------------------------------------------
(* A strategy that raises *)

\* the caller's strategy raises for some measurement or group
FailingStrategy == ~IsNone(args.rasterize_function) /\ Val(args.rasterize_function).fails

\* the strategy has been called where it raises
Raised ==
    /\ FailingStrategy
    /\ \E i \in 1..Len(calls) :
          /\ calls[i].measurement = Val(args.rasterize_function).none_for
          /\ calls[i].group \in {0, Val(args.rasterize_function).at_group}

\* C23: an exception raised by the strategy for a measurement or group ends
\* make_geocube with that exception: no dataset is returned, not even of the
\* measurements done before, and nothing is logged as a skipped attribute.
C23_ExceptionSurfaces ==
    Raised =>
        /\ pc = "error"
        /\ error = Some([type |-> "RuntimeError", site |-> "custom"])
        /\ IsNone(out_xds)
        /\ \A i \in 1..Len(log) : log[i] # Skipping(Val(args.rasterize_function).none_for)
        /\ \A i \in 1..Len(calls) : ~calls[i].returned_none

\* the strategy raised at the second measurement, or at a second group, after
\* an earlier layer of the call had been made
C23_Witness ==
    /\ Raised /\ Len(calls) > 1
    /\ Len(data_vars) + Len(image_data) > 0

-----------------------------------------------------------------------------
(* The group axis *)

\* the keys of the group coordinate of the output
OutputKeys == Val(Val(out_xds).coords.group).keys

\* the features of the caller's frame whose group value is k, in frame order
FeaturesOf(k) ==
    SelectSeq([i \in 1..Len(args.vector_data.grp) |-> i], LAMBDA i : args.vector_data.grp[i] = k)

\* C24: in a grouped output the group coordinate lists every distinct group
\* key once, every surviving measurement has one slice per key, and slice i is
\* the raster of exactly the features whose group value is the i-th key.
C24_SlicePerGroup ==
    (pc = "done" /\ Truthy(args.group_by)) =>
        /\ Range(OutputKeys) = Range(args.vector_data.grp)
        /\ \A i, j \in 1..Len(OutputKeys) : OutputKeys[i] = OutputKeys[j] => i = j
        /\ \A v \in 1..Len(OutputVars) :
              /\ Len(OutputVars[v].data) = Len(OutputKeys)
              /\ \A i \in 1..Len(OutputKeys) :
                    OutputVars[v].data[i].geoms = FeaturesOf(OutputKeys[i])

\* two groups, the frame's first and last feature in the same one, the group
\* of the first feature second on the axis
C24_Witness ==
    /\ pc = "done" /\ Truthy(args.group_by) /\ Len(OutputVars) > 0
    /\ Len(OutputKeys) = 2
    /\ args.vector_data.grp[1] = OutputKeys[2]
    /\ args.vector_data.grp[1] = args.vector_data.grp[Len(args.vector_data.grp)]
    /\ Len(OutputVars[1].data[2].geoms) >= 2

-----------------------------------------------------------------------------
(* filter_nan *)

\* a built-in strategy has computed an array
Computed == ~IsNone(rout) /\ ~IsNone(Val(rout).value)

\* the records the backend was given
UsedValues == Val(Val(rout).value).vals

UsedGeoms == Val(Val(rout).value).geoms

\* the records of the call whose value is not null, in their order
NotNull == SelectSeq(Val(rin).data_values.vals, LAMBDA r : ~r.null)

\* C25: with filter_nan every built-in strategy computes on exactly the
\* records whose value is not null: as many values as geometries, each value
\* with its own geometry, in the original order; without filter_nan it
\* computes on every record.
C25_FilterNan ==
    (pc = "direct" /\ Computed) =>
        /\ Val(rin).fn.filter_nan =>
              /\ Len(UsedValues) = Len(UsedGeoms)
              /\ \A j \in 1..Len(UsedValues) :
                    /\ ~UsedValues[j].null
                    /\ UsedGeoms[j] = Val(rin).geometry_array.geoms[UsedValues[j].id]
              /\ UsedValues = NotNull
        /\ ~Val(rin).fn.filter_nan =>
              /\ UsedValues = Val(rin).data_values.vals
              /\ UsedGeoms = Val(rin).geometry_array.geoms

\* griddata with filter_nan on floating values, the first of which is null
C25_Witness ==
    /\ pc = "direct" /\ Computed
    /\ Val(rin).fn.name = "rasterize_points_griddata" /\ Val(rin).fn.filter_nan
    /\ Val(rin).data_values.dtype = "float64"
    /\ Val(rin).data_values.vals[1].null /\ ~Val(rin).data_values.vals[MaxRecords].null
    /\ Len(UsedValues) = MaxRecords - 1 /\ UsedGeoms[1] = 2

-----------------------------------------------------------------------------
(* The order of the single pass *)

\* the call has ended on one of the fatal errors: invalid data, a template
\* given with output_crs, resolution or align, or no resolution
FatalError ==
    /\ ~IsNone(error)
    /\ \/ Val(error).type \in {"VectorDataError", "AssertionError"}
       \/ Val(error) = Raise("RuntimeError", "Must specify 'resolution' if 'like' not specified.").exc[1]

\* C26: the strategy is only ever invoked on validated features and a resolved
\* grid, of a configuration that is not a fatal one; a call that ends on a
\* fatal error has invoked it zero times; and the working measurement list
\* does not change from the first invocation on.
C26_PassOrder ==
    [][/\ calls' # calls =>
              /\ ValidData /\ GridResolved /\ ~IsNone(self._vector_data)
              /\ ~LikeConflict
              /\ ~(IsNone(args.like) /\ IsNone(args.resolution))
       /\ (calls' # calls \/ calls # <<>>) => call'.measurements = call.measurements
       /\ FatalError' => calls' = <<>>]_vars

\* every measurement of a grouped call on a template's grid has been rasterized
C26_Witness ==
    /\ pc = "done" /\ ~IsNone(args.like) /\ Truthy(args.group_by)
    /\ Len(calls) > Len(call.measurements) /\ Len(call.measurements) > 1

-----------------------------------------------------------------------------
(* The handlers of the logger *)

Attached(cls) == \E i \in 1..Len(_LOGGER.handlers) : _LOGGER.handlers[i].cls = cls

\* C30 as stated: after log_to_console(False) no console stream handler is
\* attached to the logger, however many log_to_console(True) calls came
\* before, and after log_to_file(False) no file handler is attached.
C30_HandlersRemoved ==
    [][/\ ConsoleOff => ~Attached("StreamHandler")'
       /\ FileOff => ~Attached("FileHandler")']_vars

-----------------------------------------------------------------------------
(* Calls on one instance *)

\* the coordinates a newly made instance gives the output of this call: y and
\* x of the grid, and the group keys when the call groups
FreshCoords ==
    LET gb == Val(self._geobox)
        gc == affine_to_coords(gb.affine, gb.width, gb.height)
    IN  [x |-> gc.x, y |-> gc.y,
         group |-> IF Truthy(args.group_by)
                   THEN Some([name |-> Val(args.group_by),
                              keys |-> GroupKeys(Val(self._vector_data))])
                   ELSE None]

\* the strategy this call asks for
AskedStrategy ==
    IF IsNone(args.rasterize_function) THEN DefaultStrategy ELSE Val(args.rasterize_function)

\* C27 as stated: whatever calls the instance has served before, a call
\* returns what a newly made instance returns for its arguments: the output of
\* an ungrouped call has the coordinates y and x only, that of a grouped call
\* has its own group keys as well, the data variables are those of this call,
\* and the strategy is the one of this call, rasterize_image when none is given.
C27_NoLeakBetweenCalls ==
    pc = "done" =>
        /\ Val(out_xds).coords = FreshCoords
        /\ NamesOf(OutputVars) = RequestedList
        /\ \A i \in 1..Len(OutputVars) :
              Len(OutputVars[i].dims) = (IF Truthy(args.group_by) THEN 3 ELSE 2)
        /\ self._rasterize_function = AskedStrategy
        /\ \A i \in 1..Len(OutputVars) : \A l \in 1..Len(OutputVars[i].data) :
              OutputVars[i].data[l].by = (IF IsNone(args.rasterize_function)
                                          THEN "rasterio.features.rasterize" ELSE "custom")

-----------------------------------------------------------------------------
(* The caller's own objects *)

\* C28 as stated: the list the caller passes as measurements has the same
\* elements in the same order after the call as before, with or without
\* group_by and whether or not the group column is in the list.
C28_MeasurementsUnchanged == caller.measurements = args.measurements

\* C29 as stated: the GeoDataFrame the caller passes has the same columns,
\* dtypes, values and CRS after the call as before, also when
\* categorical_enums or datetime_measurements is given and when the frame had
\* no CRS.
C29_FrameUnchanged == caller.vector_data = args.vector_data

====
